---- MODULE Spec2Model ----
(***************************************************************************)
(* Model of process_audio.py: the five-stage audio pipeline                *)
(* (process_single_file), the noise stage (step3_add_noise), the engine    *)
(* adapter (run_ffmpeg), cleanup_intermediate_files and the two drivers of *)
(* main (single file, --music-folder batch).                               *)
(*                                                                         *)
(* The file system is a function from the paths that exist to the content  *)
(* found there; a content records which run wrote it and by which engine   *)
(* operation.  A path is a string, built as the code builds it.            *)
(***************************************************************************)
EXTENDS Naturals, Sequences, FiniteSets, TLC

VARIABLES
    ffmpeg_ok,           \* check_ffmpeg(): the engine can be invoked
    args,                \* the parsed command line
    fs,                  \* file system: path -> content, for existing paths
    pc,                  \* position in main
    exit_code,           \* exit status of the program ("" while running)
    audio_files,         \* batch: sorted(audio_files)
    idx,                 \* batch: index of the file being processed
    success_count,       \* batch: success_count
    stage,               \* process_single_file: the stage about to run
    input_file,          \* process_single_file: input_file
    output_file,         \* process_single_file: output_file
    base_name,           \* process_single_file: base_name
    intermediate_files,  \* process_single_file: intermediate_files
    current_file,        \* step3_add_noise: current_file
    final_file,          \* process_single_file: final_file
    calls,               \* engine invocations of the current run, in order
    result,              \* what process_single_file returned
    history,             \* finished runs of this program, in order
    remove_errors,       \* paths whose os.remove raised (the warnings printed)
    parked               \* the local state of a second, suspended run

vars == <<ffmpeg_ok, args, fs, pc, exit_code, audio_files, idx, success_count,
          stage, input_file, output_file, base_name, intermediate_files,
          current_file, final_file, calls, result, history, remove_errors, parked>>

mainVars == <<ffmpeg_ok, args, pc, exit_code, audio_files, idx, success_count,
              history, remove_errors, parked>>

(***************************************************************************)
(* Bounds                                                                  *)
(***************************************************************************)
MaxFiles == 2        \* at most this many audio files in the music folder
MaxLoop == 2         \* the non-zero --loop value tried

(***************************************************************************)
(* Paths and inputs                                                        *)
(***************************************************************************)
NoPath == ""         \* Python None / empty string: a falsy path

\* The file names a music folder may hold, listed in the order sorted()
\* gives them ('.' sorts before '_').
Universe ==
    << [stem |-> "x", ext |-> "mp3"],
       [stem |-> "x", ext |-> "wav"],
       [stem |-> "x_tempo", ext |-> "wav"],
       [stem |-> "y", ext |-> "mp3"] >>

Entries == {Universe[i] : i \in 1..Len(Universe)}

PathOf(e) == e.stem \o "." \o e.ext

\* Path(p).stem for the paths of the universe
Stem(p) == (CHOOSE e \in Entries : PathOf(e) = p).stem

\* position of a path in the lexicographic order of sorted()
Rank(p) == CHOOSE i \in 1..Len(Universe) : PathOf(Universe[i]) = p

\* audio_extensions, in the order main globs them
audio_extensions == <<"mp3", "wav">>

ExtOf(p) == (CHOOSE e \in Entries : PathOf(e) = p).ext

RainAsset == "rain.wav"
VinylAsset == "vinyl.wav"

\* --loop: <<>> is None, <<n>> is the integer n
LoopCounts == {<<>>, <<0>>, <<MaxLoop>>}

\* Python truthiness of loop_count
Truthy(lc) == lc # <<>> /\ lc[1] # 0

tempo_file(b) == b \o "_tempo.wav"
pitch_file(b) == b \o "_pitch.wav"
textured_file(b) == b \o "_textured.wav"
eq_file(b) == b \o "_final.wav"
\* output_file.replace('.wav', '_rain.wav') applied to textured_file(b),
\* for base names that do not contain ".wav"
rain_output(b) == b \o "_textured" \o "_rain.wav"
default_output(b) == b \o "_processed.wav"

\* the intermediate paths of a run with base name b
IntermediatePaths(b) == {tempo_file(b), pitch_file(b), textured_file(b), eq_file(b)}

\* the -o values tried in single-file mode (NoPath: not given)
OutputChoices == {NoPath, "out.wav"}

(***************************************************************************)
(* File system                                                             *)
(***************************************************************************)
Exists(f, p) == p \in DOMAIN f

Content(by, op) == [by |-> by, op |-> op]

Original(p) == Content(p, "orig")

WriteFile(f, p, c) == [q \in DOMAIN f \cup {p} |-> IF q = p THEN c ELSE f[q]]

RemoveFile(f, p) == [q \in DOMAIN f \ {p} |-> f[q]]

\* variant: the source is copied, not moved
RenameFile_Copies(f, src, dst) ==
    [q \in DOMAIN f \cup {dst} |-> IF q = dst THEN f[src] ELSE f[q]]

\* os.rename on an existing source (POSIX: the destination is replaced)
RenameFile(f, src, dst) ==
    IF src = dst THEN f
    ELSE [q \in (DOMAIN f \ {src}) \cup {dst} |-> IF q = dst THEN f[src] ELSE f[q]]

\* variant: the removal loop stops after the first file
RemoveAll_FirstOnly(f, files) ==
    IF files = <<>> THEN f
    ELSE IF Exists(f, Head(files)) THEN RemoveFile(f, Head(files)) ELSE f

RECURSIVE RemoveAll(_, _)
RemoveAll(f, files) ==
    IF files = <<>> THEN f
    ELSE RemoveAll(IF Exists(f, Head(files)) THEN RemoveFile(f, Head(files)) ELSE f,
                   Tail(files))

\* list.remove(x): drops the first occurrence of x
RECURSIVE ListRemove(_, _)
ListRemove(s, x) ==
    IF s = <<>> THEN <<>>
    ELSE IF Head(s) = x THEN Tail(s)
    ELSE <<Head(s)>> \o ListRemove(Tail(s), x)

InList(s, x) == \E i \in 1..Len(s) : s[i] = x

(***************************************************************************)
(* Results                                                                 *)
(***************************************************************************)
NoResult == [status |-> "none", path |-> NoPath]
Success(p) == [status |-> "ok", path |-> p]          \* (True, final_output)
Failure == [status |-> "fail", path |-> NoPath]      \* (False, None)
Raised == [status |-> "raise", path |-> NoPath]      \* unhandled exception

(***************************************************************************)
(* Engine adapter                                                          *)
(***************************************************************************)
\* What one engine invocation can do.  With an input missing the engine
\* exits non-zero and writes nothing; otherwise it succeeds, or fails
\* leaving nothing, or fails leaving a half-written output.
EngineOutcomes(ins) ==
    IF \A i \in 1..Len(ins) : Exists(fs, ins[i])
    THEN {"ok", "fail", "partial"}
    ELSE {"fail"}

\* variant: a failed invocation is attempted a second time
run_ffmpeg_Retries(op, ins, out, o) ==
    /\ fs' = CASE o = "ok" -> WriteFile(fs, out, Content(input_file, op))
               [] o = "partial" -> WriteFile(fs, out, Content(input_file, "partial"))
               [] OTHER -> fs
    /\ calls' = LET c == [op |-> op, ins |-> ins, out |-> out, ok |-> (o = "ok"),
                          fed |-> \A i \in 1..Len(ins) : Exists(fs, ins[i])]
                IN IF o = "ok" THEN Append(calls, c) ELSE calls \o <<c, c>>

run_ffmpeg(op, ins, out, o) ==
    /\ fs' = CASE o = "ok" -> WriteFile(fs, out, Content(input_file, op))
               [] o = "partial" -> WriteFile(fs, out, Content(input_file, "partial"))
               [] OTHER -> fs
    /\ calls' = Append(calls, [op |-> op, ins |-> ins, out |-> out, ok |-> (o = "ok"),
                                fed |-> \A i \in 1..Len(ins) : Exists(fs, ins[i])])

\* return False, None
ReturnFalse ==
    /\ stage' = "FAILED"
    /\ result' = Failure

\* an exception nobody catches: the interpreter prints it and exits 1
RaiseError ==
    /\ stage' = "RAISED"
    /\ result' = Raised
    /\ pc' = "exit"
    /\ exit_code' = "1"

\* variant: tests "loop_count is not None" instead of its truth value
Step5_NotNone == IF args.loop # <<>> THEN "LOOP" ELSE "RENAME"

\* the stage that follows a completed EQ stage (or a skipped one)
Step5 == IF Truthy(args.loop) THEN "LOOP" ELSE "RENAME"

(***************************************************************************)
(* process_single_file, stage by stage                                     *)
(***************************************************************************)
Running(s) == pc = "run" /\ stage = s

\* variant: the pitch stage's failure is not checked
step2_change_pitch_IgnoresFailure ==
    /\ Running("PITCH")
    /\ \E o \in EngineOutcomes(<<tempo_file(base_name)>>) :
        /\ run_ffmpeg("pitch", <<tempo_file(base_name)>>, pitch_file(base_name), o)
        /\ intermediate_files' = Append(intermediate_files, pitch_file(base_name))
        /\ stage' = "NOISE"
        /\ current_file' = pitch_file(base_name)
        /\ UNCHANGED result
    /\ UNCHANGED <<mainVars, input_file, output_file, base_name, final_file>>

step1_change_tempo ==
    /\ Running("TEMPO")
    /\ \E o \in EngineOutcomes(<<input_file>>) :
        /\ run_ffmpeg("tempo", <<input_file>>, tempo_file(base_name), o)
        /\ IF o = "ok"
           THEN /\ intermediate_files' = Append(intermediate_files, tempo_file(base_name))
                /\ stage' = "PITCH"
                /\ UNCHANGED result
           ELSE ReturnFalse /\ UNCHANGED intermediate_files
    /\ UNCHANGED <<mainVars, input_file, output_file, base_name, current_file, final_file>>

step2_change_pitch ==
    /\ Running("PITCH")
    /\ \E o \in EngineOutcomes(<<tempo_file(base_name)>>) :
        /\ run_ffmpeg("pitch", <<tempo_file(base_name)>>, pitch_file(base_name), o)
        /\ IF o = "ok"
           THEN /\ intermediate_files' = Append(intermediate_files, pitch_file(base_name))
                /\ stage' = "NOISE"
                /\ current_file' = pitch_file(base_name)
                /\ UNCHANGED result
           ELSE ReturnFalse /\ UNCHANGED <<intermediate_files, current_file>>
    /\ UNCHANGED <<mainVars, input_file, output_file, base_name, final_file>>

\* step3_add_noise, the rain half
step3_rain ==
    /\ Running("NOISE")
    /\ IF args.rain # NoPath /\ Exists(fs, args.rain)
       THEN \E o \in EngineOutcomes(<<current_file, args.rain>>) :
            /\ run_ffmpeg("rain", <<current_file, args.rain>>, rain_output(base_name), o)
            /\ IF o = "ok"
               THEN /\ current_file' = rain_output(base_name)
                    /\ stage' = "NOISE2"
                    /\ UNCHANGED result
               ELSE ReturnFalse /\ UNCHANGED current_file
       ELSE /\ stage' = "NOISE2"
            /\ UNCHANGED <<fs, calls, current_file, result>>
    /\ UNCHANGED <<mainVars, input_file, output_file, base_name, intermediate_files,
                   final_file>>

\* variant: skip_eq is not consulted
NoiseDone_IgnoresSkipEq ==
    /\ intermediate_files' = Append(intermediate_files, textured_file(base_name))
    /\ stage' = "EQ"
    /\ UNCHANGED <<final_file, result>>

\* step3_add_noise returned True: record the target, then the EQ decision
NoiseDone ==
    /\ intermediate_files' = Append(intermediate_files, textured_file(base_name))
    /\ IF args.skip_eq
       THEN /\ final_file' = textured_file(base_name)
            /\ stage' = Step5
       ELSE /\ stage' = "EQ"
            /\ UNCHANGED final_file
    /\ UNCHANGED result

\* os.rename(current_file, output_file) inside step3_add_noise
PromoteRain ==
    IF Exists(fs, current_file)
    THEN /\ fs' = RenameFile(fs, current_file, textured_file(base_name))
         /\ NoiseDone
         /\ UNCHANGED <<pc, exit_code>>
    ELSE /\ RaiseError
         /\ UNCHANGED <<fs, intermediate_files, final_file>>

\* step3_add_noise, the vinyl half
step3_vinyl ==
    /\ Running("NOISE2")
    /\ IF args.vinyl # NoPath /\ Exists(fs, args.vinyl)
       THEN /\ \E o \in EngineOutcomes(<<current_file, args.vinyl>>) :
                /\ run_ffmpeg("vinyl", <<current_file, args.vinyl>>,
                              textured_file(base_name), o)
                /\ IF o = "ok" THEN NoiseDone
                   ELSE ReturnFalse /\ UNCHANGED <<intermediate_files, final_file>>
            /\ UNCHANGED <<pc, exit_code>>
       ELSE IF args.vinyl # NoPath
       THEN IF current_file # pitch_file(base_name)
            THEN PromoteRain /\ UNCHANGED calls
            ELSE /\ NoiseDone
                 /\ UNCHANGED <<fs, calls, pc, exit_code>>
       ELSE IF current_file # pitch_file(base_name)
            THEN PromoteRain /\ UNCHANGED calls
            ELSE /\ \E o \in EngineOutcomes(<<pitch_file(base_name)>>) :
                     /\ run_ffmpeg("copy", <<pitch_file(base_name)>>,
                                   textured_file(base_name), o)
                     /\ IF o = "ok" THEN NoiseDone
                        ELSE ReturnFalse /\ UNCHANGED <<intermediate_files, final_file>>
                 /\ UNCHANGED <<pc, exit_code>>
    /\ UNCHANGED <<ffmpeg_ok, args, remove_errors, parked, audio_files, idx, success_count, history,
                   input_file, output_file, base_name, current_file>>

step4_apply_eq ==
    /\ Running("EQ")
    /\ \E o \in EngineOutcomes(<<textured_file(base_name)>>) :
        /\ run_ffmpeg("eq", <<textured_file(base_name)>>, eq_file(base_name), o)
        /\ final_file' = eq_file(base_name)
        /\ IF o = "ok"
           THEN /\ intermediate_files' = Append(intermediate_files, eq_file(base_name))
                /\ stage' = Step5
                /\ UNCHANGED result
           ELSE ReturnFalse /\ UNCHANGED intermediate_files
    /\ UNCHANGED <<mainVars, input_file, output_file, base_name, current_file>>

step5_create_loop ==
    /\ Running("LOOP")
    /\ \E o \in EngineOutcomes(<<final_file>>) :
        /\ run_ffmpeg("loop", <<final_file>>, output_file, o)
        /\ IF o = "ok"
           THEN stage' = "CLEANUP" /\ UNCHANGED result
           ELSE ReturnFalse
    /\ UNCHANGED <<mainVars, input_file, output_file, base_name, intermediate_files,
                   current_file, final_file>>

\* no loop: rename final to output and take it off the cleanup list
RenameFinal ==
    /\ Running("RENAME")
    /\ IF final_file # output_file /\ ~Exists(fs, final_file)
       THEN /\ RaiseError
            /\ UNCHANGED <<fs, intermediate_files>>
       ELSE /\ fs' = RenameFile(fs, final_file, output_file)
            /\ intermediate_files' =
                   IF InList(intermediate_files, final_file)
                   THEN ListRemove(intermediate_files, final_file)
                   ELSE intermediate_files
            /\ stage' = "CLEANUP"
            /\ UNCHANGED <<pc, exit_code, result>>
    /\ UNCHANGED <<ffmpeg_ok, args, remove_errors, parked, audio_files, idx, success_count, history,
                   input_file, output_file, base_name, current_file, final_file, calls>>

\* variant: the first os.remove that raises ends the loop
RECURSIVE RemoveListed_StopsAtError(_, _, _)
RemoveListed_StopsAtError(f, files, stuck) ==
    IF files = <<>> THEN f
    ELSE IF Head(files) \in stuck THEN f
    ELSE RemoveListed_StopsAtError(
             IF Exists(f, Head(files)) THEN RemoveFile(f, Head(files)) ELSE f,
             Tail(files), stuck)

\* the removal loop when os.remove raises for the paths in stuck: the
\* exception is caught per file and the loop goes on
RemoveListed(f, files, stuck) ==
    RemoveAll(f, SelectSeq(files, LAMBDA p : p \notin stuck))

\* variant: keep_intermediate is not consulted
CleanupFiles_IgnoresKeep(stuck) ==
    /\ Running("CLEANUP")
    /\ fs' = RemoveListed(fs, intermediate_files, stuck)
    /\ remove_errors' = remove_errors \cup stuck
    /\ stage' = "DONE"
    /\ result' = Success(output_file)
    /\ UNCHANGED <<ffmpeg_ok, args, parked, pc, exit_code, audio_files, idx,
                   success_count, history, input_file, output_file, base_name,
                   intermediate_files, current_file, final_file, calls>>

\* cleanup_intermediate_files followed by "return True, final_output"
CleanupFiles(stuck) ==
    /\ Running("CLEANUP")
    /\ fs' = IF ~args.keep_intermediate
             THEN RemoveListed(fs, intermediate_files, stuck)
             ELSE fs
    /\ remove_errors' = remove_errors \cup stuck
    /\ stage' = "DONE"
    /\ result' = Success(output_file)
    /\ UNCHANGED <<ffmpeg_ok, args, parked, pc, exit_code, audio_files, idx,
                   success_count, history, input_file, output_file, base_name,
                   intermediate_files, current_file, final_file, calls>>

\* every os.remove succeeds
cleanup_intermediate_files == CleanupFiles({})

\* the files os.remove is called on
Removable ==
    IF args.keep_intermediate THEN {}
    ELSE {p \in DOMAIN fs : InList(intermediate_files, p)}

\* os.remove may raise (permission denied, ...) for any of them
cleanup_with_errors == \E stuck \in SUBSET Removable : CleanupFiles(stuck)

Stages ==
    \/ step1_change_tempo
    \/ step2_change_pitch
    \/ step3_rain
    \/ step3_vinyl
    \/ step4_apply_eq
    \/ step5_create_loop
    \/ RenameFinal

RunStep == Stages \/ cleanup_intermediate_files

(***************************************************************************)
(* main                                                                    *)
(***************************************************************************)
\* the local state of process_single_file on entry
EnterRun(inp, out, base) ==
    /\ input_file' = inp
    /\ output_file' = out
    /\ base_name' = base
    /\ intermediate_files' = <<>>
    /\ current_file' = NoPath
    /\ final_file' = NoPath
    /\ calls' = <<>>
    /\ result' = NoResult
    /\ stage' = "TEMPO"

runVars == <<stage, input_file, output_file, base_name, intermediate_files,
             current_file, final_file, calls, result>>

\* variant: the result of check_ffmpeg() is not acted upon
CheckFFmpeg_Unchecked ==
    /\ pc = "check"
    /\ pc' = IF args.music_folder THEN "scan" ELSE "single"
    /\ UNCHANGED <<ffmpeg_ok, args, remove_errors, parked, fs, exit_code, audio_files, idx,
                   success_count, history, runVars>>

CheckFFmpeg ==
    /\ pc = "check"
    /\ IF ffmpeg_ok
       THEN /\ pc' = IF args.music_folder THEN "scan" ELSE "single"
            /\ UNCHANGED exit_code
       ELSE pc' = "exit" /\ exit_code' = "1"
    /\ UNCHANGED <<ffmpeg_ok, args, remove_errors, parked, fs, audio_files, idx, success_count, history, runVars>>

\* the files of the music folder that the glob patterns match
Matching ==
    {p \in DOMAIN fs : /\ \E e \in Entries : PathOf(e) = p
                       /\ \E i \in 1..Len(audio_extensions) : audio_extensions[i] = ExtOf(p)}

IsSorted(s) == \A i, j \in 1..Len(s) : i < j => Rank(s[i]) < Rank(s[j])

ListingsOf(S) ==
    {s \in [1..Cardinality(S) -> S] : \A p \in S : \E i \in 1..Cardinality(S) : s[i] = p}

\* sorted(audio_files)
Sorted(S) == CHOOSE s \in ListingsOf(S) : IsSorted(s)

ScanMusicFolder ==
    /\ pc = "scan"
    /\ IF Matching = {}
       THEN /\ pc' = "exit" /\ exit_code' = "1"
            /\ UNCHANGED audio_files
       ELSE /\ pc' = "loop"
            /\ audio_files' = Sorted(Matching)
            /\ UNCHANGED exit_code
    /\ UNCHANGED <<ffmpeg_ok, args, remove_errors, parked, fs, idx, success_count, history, runVars>>

\* for audio_file in sorted(audio_files): ... process_single_file(...)
BatchLoop ==
    /\ pc = "loop"
    /\ IF idx <= Len(audio_files)
       THEN /\ pc' = "run"
            /\ EnterRun(audio_files[idx], default_output(Stem(audio_files[idx])),
                        Stem(audio_files[idx]))
            /\ UNCHANGED exit_code
       ELSE /\ pc' = "exit" /\ exit_code' = "0"
            /\ UNCHANGED runVars
    /\ UNCHANGED <<ffmpeg_ok, args, remove_errors, parked, fs, audio_files, idx, success_count, history>>

\* if success: success_count += 1
BatchReturn ==
    /\ pc = "run"
    /\ args.music_folder
    /\ stage \in {"DONE", "FAILED"}
    /\ success_count' = IF result.status = "ok" THEN success_count + 1 ELSE success_count
    /\ history' = Append(history, [input |-> input_file, result |-> result])
    /\ idx' = idx + 1
    /\ pc' = "loop"
    /\ stage' = "IDLE"
    /\ UNCHANGED <<ffmpeg_ok, args, remove_errors, parked, fs, exit_code, audio_files, input_file, output_file,
                   base_name, intermediate_files, current_file, final_file, calls, result>>

SingleStart ==
    /\ pc = "single"
    /\ IF ~Exists(fs, args.input)
       THEN /\ pc' = "exit" /\ exit_code' = "1"
            /\ UNCHANGED runVars
       ELSE /\ pc' = "run"
            /\ EnterRun(args.input,
                        IF args.output = NoPath THEN default_output(Stem(args.input))
                        ELSE args.output,
                        Stem(args.input))
            /\ UNCHANGED exit_code
    /\ UNCHANGED <<ffmpeg_ok, args, remove_errors, parked, fs, audio_files, idx, success_count, history>>

\* if not success: sys.exit(1)
SingleReturn ==
    /\ pc = "run"
    /\ ~args.music_folder
    /\ stage \in {"DONE", "FAILED"}
    /\ history' = Append(history, [input |-> input_file, result |-> result])
    /\ pc' = "exit"
    /\ exit_code' = IF result.status = "ok" THEN "0" ELSE "1"
    /\ stage' = "IDLE"
    /\ UNCHANGED <<ffmpeg_ok, args, remove_errors, parked, fs, audio_files, idx, success_count, input_file,
                   output_file, base_name, intermediate_files, current_file, final_file,
                   calls, result>>

(***************************************************************************)
(* Initial states and specifications                                       *)
(***************************************************************************)
\* the noise assets: not given, given but missing, given and on disk
AssetStates == {"none", "missing", "present"}

AssetFiles(r, v) ==
    (IF r = "present" THEN {RainAsset} ELSE {}) \cup
    (IF v = "present" THEN {VinylAsset} ELSE {})

\* no second run
NoRun ==
    [stage |-> "IDLE", input_file |-> NoPath, output_file |-> NoPath, base_name |-> "",
     intermediate_files |-> <<>>, current_file |-> NoPath, final_file |-> NoPath,
     calls |-> <<>>, result |-> NoResult]

InitWith(batch, files, inp, out) ==
    /\ ffmpeg_ok \in BOOLEAN
    /\ \E r \in AssetStates, v \in AssetStates :
        /\ \E lc \in LoopCounts, se \in BOOLEAN, keep \in BOOLEAN :
            args = [music_folder |-> batch, input |-> inp, output |-> out,
                    rain |-> IF r = "none" THEN NoPath ELSE RainAsset,
                    vinyl |-> IF v = "none" THEN NoPath ELSE VinylAsset,
                    loop |-> lc, skip_eq |-> se, keep_intermediate |-> keep]
        /\ fs = [p \in files \cup AssetFiles(r, v) |-> Original(p)]
    /\ pc = "check"
    /\ exit_code = ""
    /\ audio_files = <<>>
    /\ idx = 1
    /\ success_count = 0
    /\ stage = "IDLE"
    /\ input_file = NoPath
    /\ output_file = NoPath
    /\ base_name = ""
    /\ intermediate_files = <<>>
    /\ current_file = NoPath
    /\ final_file = NoPath
    /\ calls = <<>>
    /\ result = NoResult
    /\ history = <<>>
    /\ remove_errors = {}
    /\ parked = NoRun

SingleInput == PathOf(Universe[1])

\* python process_audio.py x.mp3 [-o out] [options]
Init ==
    \E present \in BOOLEAN, out \in OutputChoices :
        InitWith(FALSE, IF present THEN {SingleInput} ELSE {}, SingleInput, out)

Next == CheckFFmpeg \/ SingleStart \/ RunStep \/ SingleReturn

Spec == Init /\ [][Next]_vars

\* python process_audio.py x.mp3 -o <one of the run's own intermediate names>
InitOut ==
    \E out \in OutputChoices \cup IntermediatePaths(Stem(SingleInput)) :
        InitWith(FALSE, {SingleInput}, SingleInput, out)

SpecOut == InitOut /\ [][Next]_vars

\* the same program on a file system where os.remove can fail
NextFaults == CheckFFmpeg \/ SingleStart \/ Stages \/ cleanup_with_errors \/ SingleReturn

SpecFaults == Init /\ [][NextFaults]_vars

\* python process_audio.py --music-folder [options]
InitBatch ==
    \E dir \in SUBSET {PathOf(e) : e \in Entries} :
        /\ Cardinality(dir) <= MaxFiles
        /\ InitWith(TRUE, dir, NoPath, NoPath)

NextBatch == CheckFFmpeg \/ ScanMusicFolder \/ BatchLoop \/ RunStep \/ BatchReturn

SpecBatch == InitBatch /\ [][NextBatch]_vars

(***************************************************************************)
(* Two runs of process_single_file in one working directory, interleaved   *)
(* step by step: the variables hold the running one, parked the other.     *)
(***************************************************************************)
ActiveRun ==
    [stage |-> stage, input_file |-> input_file, output_file |-> output_file,
     base_name |-> base_name, intermediate_files |-> intermediate_files,
     current_file |-> current_file, final_file |-> final_file,
     calls |-> calls, result |-> result]

\* process_single_file(str(audio_file), str(output_file), ..., base_name, music_dir)
\* on entry
NewRun(p) ==
    [stage |-> "TEMPO", input_file |-> p, output_file |-> default_output(Stem(p)),
     base_name |-> Stem(p), intermediate_files |-> <<>>, current_file |-> NoPath,
     final_file |-> NoPath, calls |-> <<>>, result |-> NoResult]

\* the scheduler passes control to the other run
Switch ==
    /\ pc = "run"
    /\ parked' = ActiveRun
    /\ stage' = parked.stage
    /\ input_file' = parked.input_file
    /\ output_file' = parked.output_file
    /\ base_name' = parked.base_name
    /\ intermediate_files' = parked.intermediate_files
    /\ current_file' = parked.current_file
    /\ final_file' = parked.final_file
    /\ calls' = parked.calls
    /\ result' = parked.result
    /\ UNCHANGED <<ffmpeg_ok, args, remove_errors, fs, pc, exit_code, audio_files, idx,
                   success_count, history>>

\* two files of the folder with distinct base names, both runs entered
InitPar ==
    \E a, b \in 1..Len(Universe) :
        /\ a < b
        /\ Universe[a].stem # Universe[b].stem
        /\ \E r \in AssetStates, v \in AssetStates :
            /\ \E lc \in LoopCounts, se \in BOOLEAN, keep \in BOOLEAN :
                args = [music_folder |-> TRUE, input |-> NoPath, output |-> NoPath,
                        rain |-> IF r = "none" THEN NoPath ELSE RainAsset,
                        vinyl |-> IF v = "none" THEN NoPath ELSE VinylAsset,
                        loop |-> lc, skip_eq |-> se, keep_intermediate |-> keep]
            /\ fs = [p \in {PathOf(Universe[a]), PathOf(Universe[b])} \cup AssetFiles(r, v)
                         |-> Original(p)]
        /\ audio_files = <<PathOf(Universe[a]), PathOf(Universe[b])>>
        /\ stage = "TEMPO"
        /\ input_file = PathOf(Universe[a])
        /\ output_file = default_output(Universe[a].stem)
        /\ base_name = Universe[a].stem
        /\ parked = NewRun(PathOf(Universe[b]))
    /\ ffmpeg_ok = TRUE
    /\ pc = "run"
    /\ exit_code = ""
    /\ idx = 1
    /\ success_count = 0
    /\ intermediate_files = <<>>
    /\ current_file = NoPath
    /\ final_file = NoPath
    /\ calls = <<>>
    /\ result = NoResult
    /\ history = <<>>
    /\ remove_errors = {}

NextPar == RunStep \/ Switch

SpecPar == InitPar /\ [][NextPar]_vars

\* both ways of starting the program
InitMain == Init \/ InitBatch

NextMain == Next \/ NextBatch

SpecMain == InitMain /\ [][NextMain]_vars

(***************************************************************************)
(* Properties                                                              *)
(***************************************************************************)
Last(s) == s[Len(s)]

AllOk(cs) == \A i \in 1..Len(cs) : cs[i].ok

Invoked(op) == \E i \in 1..Len(calls) : calls[i].op = op

NoiseOps == {"rain", "vinyl", "copy"}

\* every engine invocation of the run whose input files existed succeeded
EngineReliable == \A i \in 1..Len(calls) : calls[i].fed => calls[i].ok

\* C1: when a stage's engine invocation fails, the run returns (False, None),
\* no file is left at the final output path, and the intermediates recorded
\* so far are removed unless keep_intermediate is set (then they are kept).
C1_FailureCleansUp ==
    stage = "FAILED" =>
        /\ result = Failure
        /\ ~Exists(fs, output_file)
        /\ \A i \in 1..Len(intermediate_files) :
               Exists(fs, intermediate_files[i]) <=> args.keep_intermediate

\* step3_add_noise has just returned True (nothing has run since)
NoiseReturnedTrue ==
    /\ pc = "run"
    /\ \/ stage = "EQ"
       \/ args.skip_eq /\ stage \in {"LOOP", "RENAME"}

\* C2: whenever step3_add_noise returns success, a file exists at its
\* target output path, whatever the state of the rain and vinyl assets.
C2_NoiseTargetExists ==
    NoiseReturnedTrue => Exists(fs, textured_file(base_name))

MissingAssetGiven ==
    \/ args.rain # NoPath /\ ~Exists(fs, args.rain)
    \/ args.vinyl # NoPath /\ ~Exists(fs, args.vinyl)

\* C3: a noise asset that is given but missing is not fatal: if the engine
\* succeeds whenever its inputs exist, the run ends in success and the
\* final output exists.
C3_MissingAssetNonFatal ==
    (/\ stage \in {"DONE", "FAILED", "RAISED"}
     /\ MissingAssetGiven
     /\ EngineReliable)
    => (result = Success(output_file) /\ Exists(fs, output_file))

\* C5: a run of process_single_file ends either with (True, output_file),
\* all executed stages having succeeded, or with (False, None), a stage
\* having failed; it never ends with an unhandled error.
C5_TwoOutcomes ==
    stage \in {"DONE", "FAILED", "RAISED"} =>
        \/ result = Success(output_file) /\ AllOk(calls)
        \/ result = Failure /\ ~AllOk(calls)

\* the stages that may directly follow stage s without a failure
NextStages(s) ==
    CASE s = "IDLE" -> {"TEMPO"}
      [] s = "TEMPO" -> {"PITCH"}
      [] s = "PITCH" -> {"NOISE"}
      [] s = "NOISE" -> {"NOISE2"}
      [] s = "NOISE2" -> {"EQ", "LOOP", "RENAME"}
      [] s = "EQ" -> {"LOOP", "RENAME"}
      [] s = "LOOP" -> {"CLEANUP"}
      [] s = "RENAME" -> {"CLEANUP"}
      [] s = "CLEANUP" -> {"DONE"}
      [] OTHER -> {}

\* the stage an engine operation belongs to
StageOf(op) ==
    CASE op = "tempo" -> "TEMPO"
      [] op = "pitch" -> "PITCH"
      [] op = "rain" -> "NOISE"
      [] op \in {"vinyl", "copy"} -> "NOISE2"
      [] op = "eq" -> "EQ"
      [] OTHER -> "LOOP"

C4_Step ==
    /\ stage' # stage =>
        \/ stage' \in NextStages(stage) /\ AllOk(calls')
        \/ /\ stage' = "FAILED"
           /\ Len(calls') = Len(calls) + 1
           /\ ~Last(calls').ok
        \/ stage' = "RAISED" /\ calls' = calls
        \/ stage \in {"DONE", "FAILED"} /\ stage' = "IDLE"
    /\ stage' = "EQ" => ~args.skip_eq
    /\ (stage = "NOISE2" /\ stage' \in {"LOOP", "RENAME"}) => args.skip_eq
    /\ calls' # calls =>
        /\ Len(calls') = Len(calls) + 1
        /\ AllOk(calls)
        /\ stage = StageOf(Last(calls').op)
    /\ stage \in {"FAILED", "RAISED", "DONE"} => calls' = calls

\* C4: the stages of a run are entered only in the order TEMPO, PITCH,
\* NOISE, EQ (unless skipped), LOOP (unless skipped), DONE; a stage starts
\* only after the previous one succeeded, and after a reported failure the
\* run is FAILED and makes no further engine invocation.
C4_StageOrder == [][C4_Step]_vars

\* a run that failed in the vinyl mix, after three successful invocations
C4_Witness == stage = "FAILED" /\ Len(calls) = 4 /\ Last(calls).op = "vinyl"

\* C6: with no noise assets, no loop, keep_intermediate false and every
\* engine invocation succeeding, the run leaves exactly one new file, the
\* final output at output_file, and none of its intermediates.
C6_OnlyOutputRemains ==
    (/\ stage = "DONE"
     /\ args.rain = NoPath /\ args.vinyl = NoPath
     /\ ~Truthy(args.loop)
     /\ ~args.keep_intermediate)
    => /\ DOMAIN fs = {input_file, output_file}
       /\ fs[input_file] = Original(input_file)
       /\ fs[output_file].by = input_file
       /\ fs[output_file].op = IF args.skip_eq THEN "copy" ELSE "eq"

C6_Witness ==
    /\ stage = "DONE"
    /\ args.rain = NoPath /\ args.vinyl = NoPath
    /\ ~Truthy(args.loop)
    /\ ~args.keep_intermediate
    /\ ~args.skip_eq
    /\ ~Exists(fs, eq_file(base_name))

\* the runs of process_single_file entered so far: the returned ones and
\* the one an exception ended
RunsEntered == Len(history) + (IF stage = "RAISED" THEN 1 ELSE 0)

\* C7: in batch mode every enumerated file is run exactly once, in sorted
\* order, however earlier runs ended, and the success count is the number
\* of runs that ended in success.
C7_BatchProcessesAll ==
    (pc = "exit" /\ audio_files # <<>>) =>
        /\ IsSorted(audio_files)
        /\ RunsEntered = Len(audio_files)
        /\ \A i \in 1..Len(history) : history[i].input = audio_files[i]
        /\ success_count =
               Cardinality({i \in 1..Len(history) : history[i].result.status = "ok"})

\* C8: with skip_eq set and no loop, the EQ invocation never happens and no
\* copy is made: the artifact the noise stage wrote is renamed to
\* output_file, no file remains at the _textured path, and that path is
\* not on the cleanup list.
C8_SkipEqHandsOver ==
    (args.skip_eq /\ ~Truthy(args.loop)) =>
        /\ \A i \in 1..Len(calls) : calls[i].op \in {"tempo", "pitch"} \cup NoiseOps
        /\ stage \in {"CLEANUP", "DONE"} =>
            /\ Exists(fs, output_file)
            /\ fs[output_file].by = input_file
            /\ fs[output_file].op \in NoiseOps
            /\ fs[output_file].op = Last(calls).op
            /\ ~Exists(fs, textured_file(base_name))
            /\ ~InList(intermediate_files, textured_file(base_name))

C8_Witness ==
    /\ args.skip_eq /\ ~Truthy(args.loop)
    /\ stage = "DONE"
    /\ Exists(fs, output_file) /\ fs[output_file].op = "vinyl"

C9_Step ==
    /\ (calls' # calls /\ Last(calls').op = "loop") => Truthy(args.loop)
    /\ (stage' \in {"LOOP", "RENAME"} /\ stage' # stage) =>
           (stage' = "LOOP" <=> Truthy(args.loop))
    /\ (stage = "LOOP" /\ stage' # stage) =>
           /\ calls' = Append(calls, Last(calls'))
           /\ Last(calls').op = "loop"
           /\ Last(calls').ins = <<final_file>>
           /\ Last(calls').out = output_file
    /\ (stage = "RENAME" /\ stage' = "CLEANUP") =>
           /\ calls' = calls
           /\ Exists(fs, final_file)
           /\ fs' = [q \in (DOMAIN fs \ {final_file}) \cup {output_file} |->
                        IF q = output_file THEN fs[final_file] ELSE fs[q]]
           /\ ~InList(intermediate_files', final_file)

\* C9: the loop engine operation is invoked if and only if loop_count is
\* present and non-zero; otherwise no loop invocation is made and the
\* prior stage's output is renamed to the final output path and taken off
\* the list of intermediates.
C9_LoopIffRequested == [][C9_Step]_vars

\* a run with --loop 0 that has renamed its last artifact to the output
C9_Witness ==
    /\ args.loop = <<0>>
    /\ stage = "CLEANUP"
    /\ Exists(fs, output_file) /\ ~Exists(fs, final_file)

\* C10: no stage is retried: within one run each engine operation is
\* executed at most once, whether it succeeds or fails.
C10_NoRetry ==
    \A i, j \in 1..Len(calls) : i # j => calls[i].op # calls[j].op

\* a run whose rain mix failed, with the earlier stages done once each
C10_Witness ==
    /\ stage = "FAILED"
    /\ Len(calls) = 3
    /\ Last(calls).op = "rain" /\ ~Last(calls).ok

C11_Step ==
    (stage = "CLEANUP" /\ stage' = "DONE") =>
        /\ \A p \in DOMAIN fs :
               (p \notin DOMAIN fs') <=>
                   (~args.keep_intermediate /\ InList(intermediate_files, p))
        /\ \A p \in DOMAIN fs' : p \in DOMAIN fs /\ fs'[p] = fs[p]

\* C11: cleanup removes a path if and only if keep_intermediate is false
\* and the path is on the run's intermediate list; with retention it
\* removes nothing, and it never removes a file that is not on the list.
C11_CleanupExact == [][C11_Step]_vars

\* retention requested: the run is over and its first intermediate is kept
C11_Witness ==
    /\ stage = "DONE"
    /\ args.keep_intermediate
    /\ Exists(fs, tempo_file(base_name))
    /\ Exists(fs, output_file)

C12_Step ==
    (stage = "CLEANUP" /\ stage' # stage) =>
        /\ stage' = "DONE"
        /\ result' = Success(output_file)
        /\ UNCHANGED <<pc, exit_code>>
        /\ ~args.keep_intermediate =>
               \A i \in 1..Len(intermediate_files) :
                   intermediate_files[i] \notin remove_errors' =>
                       ~Exists(fs', intermediate_files[i])

\* C12: a failure to remove an intermediate file does not change the run's
\* outcome, (True, output_file), and cleanup still removes the remaining
\* recorded intermediates.
C12_CleanupFailureIgnored == [][C12_Step]_vars

\* the first intermediate could not be removed, the second one was
C12_Witness ==
    /\ stage = "DONE"
    /\ result = Success(output_file)
    /\ tempo_file(base_name) \in remove_errors
    /\ Exists(fs, tempo_file(base_name))
    /\ ~Exists(fs, pitch_file(base_name))

\* C13: if the engine cannot be located, or its version probe exits
\* non-zero, the program exits with a failure status before any stage of
\* any file runs: no engine invocation, no artifact, in either mode.
C13_EngineUnavailableAborts ==
    ~ffmpeg_ok =>
        /\ pc \in {"check", "exit"}
        /\ pc = "exit" => exit_code = "1"
        /\ stage = "IDLE"
        /\ calls = <<>>
        /\ history = <<>>
        /\ \A p \in DOMAIN fs : fs[p] = Original(p)

\* the program has exited for lack of an engine, with an input on disk
C13_Witness ==
    /\ ~ffmpeg_ok
    /\ pc = "exit"
    /\ exit_code = "1"
    /\ Exists(fs, SingleInput)

\* C16: when a run returns (True, p), a file exists at p after cleanup,
\* for every caller-chosen output path, the run's own intermediate paths
\* included.
C16_OutputSurvivesCleanup ==
    stage = "DONE" => (result = Success(output_file) /\ Exists(fs, result.path))

\* the files on disk that a run wrote
CreatedFiles == {p \in DOMAIN fs : fs[p].op # "orig"}

\* C17: after a successful run with keep_intermediate false, for every
\* combination of noise assets, skip_eq and loop_count, the only file the
\* run created that still exists is the final output.
C17_NoLeftovers ==
    (stage = "DONE" /\ ~args.keep_intermediate) => CreatedFiles = {output_file}

\* the path each engine operation is meant to read
ThreadedInput(op) ==
    CASE op = "tempo" -> input_file
      [] op = "pitch" -> tempo_file(base_name)
      [] op = "rain" -> pitch_file(base_name)
      [] op = "vinyl" -> IF Invoked("rain") THEN rain_output(base_name)
                         ELSE pitch_file(base_name)
      [] op = "copy" -> pitch_file(base_name)
      [] op = "eq" -> textured_file(base_name)
      [] OTHER -> IF args.skip_eq THEN textured_file(base_name) ELSE eq_file(base_name)

\* C19: every engine invocation reads the artifact the previous step of the
\* run produced (tempo the source, pitch the tempo artifact, ..., loop the
\* EQ artifact or the noise target), and never a path that no earlier step
\* of the run has written.
C19_InputsThreaded ==
    \A i \in 1..Len(calls) :
        /\ calls[i].ins[1] = ThreadedInput(calls[i].op)
        /\ calls[i].fed

\* C20: when the rain mix was produced and the vinyl asset is not given or
\* is missing, the rain-mixed file is promoted to the target by rename: a
\* file exists at the target, none at the rain-mixed path, and the stage
\* made exactly one engine invocation.
C20_RainPromoted ==
    (/\ NoiseReturnedTrue
     /\ Invoked("rain")
     /\ ~(args.vinyl # NoPath /\ Exists(fs, args.vinyl)))
    => /\ Exists(fs, textured_file(base_name))
       /\ fs[textured_file(base_name)] = Content(input_file, "rain")
       /\ ~Exists(fs, rain_output(base_name))
       /\ Cardinality({i \in 1..Len(calls) : calls[i].op \in NoiseOps}) = 1

\* the vinyl asset was given but is missing, and the rain mix was promoted
C20_Witness ==
    /\ NoiseReturnedTrue
    /\ Invoked("rain")
    /\ args.vinyl = VinylAsset /\ ~Exists(fs, VinylAsset)
    /\ Exists(fs, textured_file(base_name))

\* C15: a batch yields one processed output file per input file: when all
\* runs succeed, the final output paths are pairwise distinct and at the
\* end of the batch each input's output file exists, also for inputs that
\* differ only in their extension.
C15_OneOutputPerInput ==
    (/\ pc = "exit" /\ exit_code = "0"
     /\ \A i \in 1..Len(history) : history[i].result.status = "ok")
    => /\ \A i, j \in 1..Len(history) :
              i # j => history[i].result.path # history[j].result.path
       /\ \A i \in 1..Len(history) :
              /\ Exists(fs, history[i].result.path)
              /\ fs[history[i].result.path].by = history[i].input

\* C18: in batch mode no run overwrites or removes the input file of
\* another batch entry: each input still has its original content when its
\* own run starts and when the batch ends.
C18_InputsUntouched ==
    /\ (pc = "run" /\ stage = "TEMPO") =>
           (Exists(fs, input_file) /\ fs[input_file] = Original(input_file))
    /\ (pc = "exit" /\ audio_files # <<>>) =>
           \A i \in 1..Len(audio_files) :
               /\ Exists(fs, audio_files[i])
               /\ fs[audio_files[i]] = Original(audio_files[i])

\* the paths a run has read through the engine
ReadPaths(r) ==
    UNION {{r.calls[i].ins[k] : k \in 1..Len(r.calls[i].ins)} : i \in 1..Len(r.calls)}

\* the paths a run has written, renamed (either end) or removed
ModifiedPaths(r) ==
    {r.calls[i].out : i \in {j \in 1..Len(r.calls) : r.calls[j].ok}}
    \cup (IF /\ InList(r.intermediate_files, textured_file(r.base_name))
             /\ \E i \in 1..Len(r.calls) : r.calls[i].op = "rain"
             /\ ~\E i \in 1..Len(r.calls) : r.calls[i].op = "vinyl"
          THEN {rain_output(r.base_name), textured_file(r.base_name)} ELSE {})
    \cup (IF r.stage \in {"CLEANUP", "DONE"} /\ ~Truthy(args.loop)
          THEN {r.final_file, r.output_file} ELSE {})
    \cup (IF r.stage = "DONE" /\ ~args.keep_intermediate
          THEN {r.intermediate_files[i] : i \in 1..Len(r.intermediate_files)}
          ELSE {})

TouchedPaths(r) == ReadPaths(r) \cup ModifiedPaths(r)

\* C14: two runs with distinct base names in one working directory never
\* collide: under any interleaving, no path one run writes, renames or
\* removes is a path the other reads, writes, renames or removes.
C14_NoPathCollision ==
    /\ ModifiedPaths(ActiveRun) \cap TouchedPaths(parked) = {}
    /\ ModifiedPaths(parked) \cap TouchedPaths(ActiveRun) = {}

====
